---------------------------- MODULE Spec2Model ----------------------------
(***************************************************************************)
(* Model of the restaurant order store of main.py: the Order table, and    *)
(* the three request handlers place_order, kitchen and delete_order, run   *)
(* by concurrent clients against one SQLite database.                      *)
(*                                                                         *)
(* A stored row is the tuple <<id, customer_name, table_number, orders>>.  *)
(* An Order object is a record; a transient one (built but not flushed)    *)
(* has no "id" field yet.  Each handler is split at the points where       *)
(* another request can run in between: building the object / finding the   *)
(* row, and the flush+commit (which SQLite runs under its write lock, so   *)
(* it is one step).                                                        *)
(***************************************************************************)
EXTENDS Integers, Sequences, FiniteSets, TLC

\* ---- bounds ----
\* Number of create requests that may succeed or be in flight in a run.
MaxCreates == 3

\* ---- input domains ----
None == "None"
Clients == {"c1", "c2"}
Names == {"Alice"}
Tables == {4, 7}
Summaries == {"2x burger"}
FormKeys == {"customer_name", "order_summary"}
\* The ids a client may ask to delete: every id a create can assign, and 999.
DeleteIds == (1..MaxCreates) \cup {999}
\* Where the storage engine fails during db.session.commit(), if it does.
Faults == {"none", "flush", "commit"}

\* A posted form: any subset of the two fields may be absent.
Forms ==
    { f \in UNION { [D -> Names \cup Summaries] : D \in SUBSET FormKeys } :
        /\ ("customer_name" \in DOMAIN f => f["customer_name"] \in Names)
        /\ ("order_summary" \in DOMAIN f => f["order_summary"] \in Summaries) }

VARIABLES
    store,     \* the committed rows of the Order table
    pc,        \* per client: where its request handler stands
    req,       \* per client: the request being (or last) handled
    order,     \* per client: the handler's local `order` object
    resp,      \* per client: the response of the last finished request
    issued,    \* history: the ids assigned by successful creates, in order
    overlap    \* history: per client, the clients whose current or last request
               \* is a create that ran concurrently with this client's create

vars == <<store, pc, req, order, resp, issued, overlap>>

NoOrder == [none |-> TRUE]
NoReq == [route |-> "none"]
NoResp == [status |-> 0]

\* ---- pure helpers ----

\* request.form.get(key): the value, or None when the field is absent
FormGet(form, key) == IF key \in DOMAIN form THEN form[key] ELSE None

\* variant: the items are read from the wrong form field
NewOrderWrongField(form, table_number) ==
    [customer_name |-> FormGet(form, "customer_name"),
     table_number  |-> table_number,
     orders        |-> FormGet(form, "customer_name")]

\* Order(customer_name=..., table_number=..., orders=...)
NewOrder(form, table_number) ==
    [customer_name |-> FormGet(form, "customer_name"),
     table_number  |-> table_number,
     orders        |-> FormGet(form, "order_summary")]

Ids(st) == { r[1] : r \in st }

SetMax(S) == CHOOSE m \in S : \A x \in S : x <= m

\* variant: the id is the row count plus one
NextRowidByCount(st) == Cardinality(st) + 1

\* SQLite's rowid for an INTEGER PRIMARY KEY without AUTOINCREMENT:
\* one more than the largest id in the table, 1 when the table is empty.
NextRowid(st) == IF st = {} THEN 1 ELSE SetMax(Ids(st)) + 1

\* variant: the orders column is nullable
NotNullNameOnly(o) == o.customer_name # None

\* nullable=False on customer_name and orders
NotNullOK(o) == o.customer_name # None /\ o.orders # None

ToRow(o, id) == <<id, o.customer_name, o.table_number, o.orders>>

\* variant: an order identical to a stored one is not inserted again
InsertIfAbsent(st, o) ==
    IF \E r \in st : <<r[2], r[3], r[4]>> = <<o.customer_name, o.table_number, o.orders>>
    THEN st
    ELSE st \cup { ToRow(o, NextRowid(st)) }

\* variant: a table holds one order, a new one replaces it
InsertPerTable(st, o) ==
    { r \in st : r[3] # o.table_number } \cup { ToRow(o, NextRowid(st)) }

\* INSERT of a transient order: the table with the new row
Insert(st, o) == st \cup { ToRow(o, NextRowid(st)) }

\* variant: the DELETE has no WHERE clause
DeleteRowAll(st, id) == {}

\* DELETE FROM "order" WHERE id = ?
DeleteRow(st, id) == { r \in st : r[1] # id }

\* the persistent object loaded from a row
FromRow(r) ==
    [id |-> r[1], customer_name |-> r[2], table_number |-> r[3], orders |-> r[4]]

\* variant: the lookup ignores the id
LookupAny(st, id) == st

\* Order.query.get(id): the rows with that primary key
Lookup(st, id) == { r \in st : r[1] = id }

\* db.session.commit() succeeded: the transaction's view becomes the table
CommitTxn(st, work) == work

\* variant: the except block does not roll back
RollbackKeeps(st, work) == work

\* db.session.rollback(): the transaction's view is dropped
Rollback(st, work) == st

RECURSIVE QueryAll(_)
\* Order.query.all(): every row, in rowid order
QueryAll(st) ==
    IF st = {} THEN <<>>
    ELSE LET r == CHOOSE x \in st : \A y \in st : x[1] <= y[1]
         IN  <<r>> \o QueryAll(st \ {r})

\* variant: __iter__ yields the customer name under "orders"
OrderDictMixed(r) ==
    [id |-> r[1], customer_name |-> r[2], table_number |-> r[3], orders |-> r[2]]

\* dict(order) through Order.__iter__
OrderDict(r) ==
    [id |-> r[1], customer_name |-> r[2], table_number |-> r[3], orders |-> r[4]]

\* [dict(order) for order in orders]
OrdersList(rows) == [i \in 1..Len(rows) |-> OrderDict(rows[i])]

Range(s) == { s[i] : i \in 1..Len(s) }

InFlightCreates == { c \in Clients : pc[c] = "add" }

\* ---- the state machine ----

Init ==
    /\ store = {}
    /\ pc = [c \in Clients |-> "idle"]
    /\ req = [c \in Clients |-> NoReq]
    /\ order = [c \in Clients |-> NoOrder]
    /\ resp = [c \in Clients |-> NoResp]
    /\ issued = <<>>
    /\ overlap = [c \in Clients |-> {}]

\* place_order, up to the try block: the Order object is built from the request
StartCreate(c, table_number, form) ==
    /\ pc[c] = "idle"
    /\ Len(issued) + Cardinality(InFlightCreates) < MaxCreates
    /\ pc' = [pc EXCEPT ![c] = "add"]
    /\ req' = [req EXCEPT ![c] =
                 [route |-> "place_order", table_number |-> table_number, form |-> form]]
    /\ order' = [order EXCEPT ![c] = NewOrder(form, table_number)]
    /\ resp' = [resp EXCEPT ![c] = NoResp]
    /\ overlap' = [d \in Clients |->
                     IF d = c THEN InFlightCreates
                     ELSE IF d \in InFlightCreates THEN overlap[d] \cup {c}
                     ELSE overlap[d] \ {c}]
    /\ UNCHANGED <<store, issued>>

\* place_order, the try block and the response
CommitCreate(c, fault) ==
    /\ pc[c] = "add"
    /\ LET o == order[c]
           flushed == NotNullOK(o) /\ fault # "flush"
           work == IF flushed THEN Insert(store, o) ELSE store
           ok == flushed /\ fault = "none"
           id == NextRowid(store)
       IN  IF ok
           THEN /\ store' = CommitTxn(store, work)
                /\ order' = [order EXCEPT ![c] = FromRow(ToRow(o, id))]
                /\ issued' = Append(issued, id)
                /\ resp' = [resp EXCEPT ![c] =
                              [status |-> 200,
                               customer_name |-> o.customer_name,
                               table_number |-> req[c].table_number,
                               order_summary |-> o.orders]]
           ELSE /\ store' = Rollback(store, work)
                /\ resp' = [resp EXCEPT ![c] =
                              [status |-> 500, body |-> "Error placing order"]]
                /\ UNCHANGED <<order, issued>>
    /\ pc' = [pc EXCEPT ![c] = "idle"]
    /\ UNCHANGED <<req, overlap>>

\* kitchen
Kitchen(c) ==
    /\ pc[c] = "idle"
    /\ req' = [req EXCEPT ![c] = [route |-> "kitchen"]]
    /\ order' = [order EXCEPT ![c] = NoOrder]
    /\ resp' = [resp EXCEPT ![c] =
                  [status |-> 200, orders |-> OrdersList(QueryAll(store))]]
    /\ overlap' = [d \in Clients |-> IF d = c THEN {} ELSE overlap[d] \ {c}]
    /\ UNCHANGED <<store, pc, issued>>

\* delete_order, get_or_404
StartDelete(c, id) ==
    /\ pc[c] = "idle"
    /\ req' = [req EXCEPT ![c] = [route |-> "delete_order", id |-> id]]
    /\ overlap' = [d \in Clients |-> IF d = c THEN {} ELSE overlap[d] \ {c}]
    /\ IF Lookup(store, id) = {}
       THEN /\ resp' = [resp EXCEPT ![c] = [status |-> 404]]
            /\ order' = [order EXCEPT ![c] = NoOrder]
            /\ UNCHANGED pc
       ELSE /\ resp' = [resp EXCEPT ![c] = NoResp]
            /\ order' = [order EXCEPT ![c] =
                           FromRow(CHOOSE r \in Lookup(store, id) : TRUE)]
            /\ pc' = [pc EXCEPT ![c] = "found"]
    /\ UNCHANGED <<store, issued>>

\* variant: the except block of delete_order answers 500 without rolling back
CommitDeleteNoRollback(c, fault) ==
    /\ pc[c] = "found"
    /\ LET work == IF fault # "flush" THEN DeleteRow(store, order[c].id) ELSE store
       IN  /\ store' = work
           /\ resp' = [resp EXCEPT ![c] =
                         IF fault = "none"
                         THEN [status |-> 302, location |-> "/kitchen/"]
                         ELSE [status |-> 500, body |-> "Error deleting order"]]
    /\ pc' = [pc EXCEPT ![c] = "idle"]
    /\ UNCHANGED <<req, order, issued, overlap>>

\* delete_order, the try block and the response
CommitDelete(c, fault) ==
    /\ pc[c] = "found"
    /\ LET work == IF fault # "flush" THEN DeleteRow(store, order[c].id) ELSE store
       IN  IF fault = "none"
           THEN /\ store' = CommitTxn(store, work)
                /\ resp' = [resp EXCEPT ![c] = [status |-> 302, location |-> "/kitchen/"]]
           ELSE /\ store' = Rollback(store, work)
                /\ resp' = [resp EXCEPT ![c] =
                              [status |-> 500, body |-> "Error deleting order"]]
    /\ pc' = [pc EXCEPT ![c] = "idle"]
    /\ UNCHANGED <<req, order, issued, overlap>>

Next ==
    \/ \E c \in Clients, t \in Tables, f \in Forms : StartCreate(c, t, f)
    \/ \E c \in Clients, fault \in Faults : CommitCreate(c, fault)
    \/ \E c \in Clients : Kitchen(c)
    \/ \E c \in Clients, id \in DeleteIds : StartDelete(c, id)
    \/ \E c \in Clients, fault \in Faults : CommitDelete(c, fault)

Spec == Init /\ [][Next]_vars

\* ---- observable steps, read off the variables ----

\* something of client c's own request state changes in the step
Moved(c) == <<pc[c], req[c], order[c], resp[c]>>' # <<pc[c], req[c], order[c], resp[c]>>

\* c's place_order returns in this step, with the given status
CreateEnds(c, status) ==
    pc[c] = "add" /\ pc'[c] = "idle" /\ resp'[c].status = status

\* c's delete_order, having found the row, returns in this step
DeleteEnds(c, status) ==
    pc[c] = "found" /\ pc'[c] = "idle" /\ resp'[c].status = status

\* a delete request of c is received in this step
DeleteArrives(c) ==
    pc[c] = "idle" /\ Moved(c) /\ req'[c].route = "delete_order"

\* a kitchen request of c is served in this step
KitchenServed(c) ==
    pc[c] = "idle" /\ Moved(c) /\ req'[c].route = "kitchen"

\* the form carries both fields
ValidForm(form) == DOMAIN form = FormKeys

\* the listing the kitchen view would show for a table
ListAll(st) == OrdersList(QueryAll(st))

UniqueIds(st) == \A r, s \in st : r[1] = s[1] => r = s

\* the rows of a table that carry the given three field values
SameFields(st, name, table, items) ==
    { r \in st : r[2] = name /\ r[3] = table /\ r[4] = items }

\* ---- claims ----

\* C1 (as stated): no two stored Orders share an id, and no id is ever
\* assigned by two creates, also not after the Order that held it was deleted.
C1_IdNeverReused ==
    /\ UniqueIds(store)
    /\ \A i, j \in 1..Len(issued) : issued[i] = issued[j] => i = j

\* C1 (amended): no two stored Orders share an id, and the id a create assigns
\* is held by no Order stored at that moment; the id of a deleted Order may be
\* assigned again.
C1_IdUniqueAmongStored ==
    [][ /\ UniqueIds(store')
        /\ \A c \in Clients :
             CreateEnds(c, 200) =>
                /\ order'[c].id \notin Ids(store)
                /\ order'[c].id \in Ids(store') ]_vars

\* a create has been given the id of a deleted Order while another Order is stored
C1_Witness ==
    /\ Cardinality(store) >= 2
    /\ \E i, j \in 1..Len(issued) :
         i < j /\ issued[i] = issued[j] /\ issued[j] \in Ids(store)

\* C2: a successful create with a valid triple makes list_all return the
\* previous Orders plus exactly one new Order with those three field values
\* and an id no previous Order had.
C2_CreateThenListAll ==
    [][ \A c \in Clients :
          (CreateEnds(c, 200) /\ ValidForm(req[c].form)) =>
             LET before == ListAll(store)
                 after  == ListAll(store')
                 new    == [id            |-> order'[c].id,
                            customer_name |-> req[c].form["customer_name"],
                            table_number  |-> req[c].table_number,
                            orders        |-> req[c].form["order_summary"]]
             IN  /\ Len(after) = Len(before) + 1
                 /\ Range(after) = Range(before) \cup {new}
                 /\ \A x \in Range(before) : x.id # new.id ]_vars

\* a create has succeeded on a store that already held Orders
C2_Witness ==
    \E c \in Clients :
        /\ pc[c] = "idle" /\ req[c].route = "place_order" /\ resp[c].status = 200
        /\ ToRow(order[c], order[c].id) \in store
        /\ Cardinality(store) >= 2

\* C3: delete(id) for an id no stored Order has ends with 404 and leaves the
\* stored Orders as they were.
C3_DeleteMissingIsNotFound ==
    [][ \A c \in Clients :
          (DeleteArrives(c) /\ req'[c].id \notin Ids(store)) =>
             /\ resp'[c].status = 404
             /\ pc'[c] = "idle"
             /\ store' = store ]_vars

\* a delete of an absent id was answered 404 while Orders are stored
C3_Witness ==
    \E c \in Clients :
        /\ req[c].route = "delete_order" /\ resp[c].status = 404
        /\ req[c].id \notin Ids(store)
        /\ store # {}

\* C4: a delete(id) that found the Order and met no storage failure ends with
\* a 302 redirect to the kitchen view, list_all no longer contains the id, and
\* every other stored Order is still there unchanged.
C4_DeleteRemovesOnlyThatId ==
    [][ \A c \in Clients :
          /\ (pc[c] = "found" /\ pc'[c] = "idle") => resp'[c].status \in {302, 500}
          /\ DeleteEnds(c, 302) =>
                /\ resp'[c].location = "/kitchen/"
                /\ \A x \in Range(ListAll(store')) : x.id # req[c].id
                /\ store' = { r \in store : r[1] # req[c].id } ]_vars

\* a delete has succeeded and other Orders are still stored
C4_Witness ==
    \E c \in Clients :
        /\ pc[c] = "idle" /\ req[c].route = "delete_order" /\ resp[c].status = 302
        /\ req[c].id \notin Ids(store)
        /\ store # {}

\* C5: a create whose storage write fails ends with 500 and leaves the stored
\* Orders exactly as they were; a create whose form lacks customer_name or
\* order_summary is such a create.
C5_CreateFailureRollsBack ==
    [][ \A c \in Clients :
          /\ CreateEnds(c, 500) => store' = store
          /\ (pc[c] = "add" /\ pc'[c] = "idle" /\ ~ValidForm(req[c].form)) =>
                (resp'[c].status = 500 /\ store' = store)
          /\ (pc[c] = "add" /\ pc'[c] = "idle") => resp'[c].status \in {200, 500} ]_vars

\* a create without customer_name was answered 500 while Orders are stored
C5_Witness ==
    \E c \in Clients :
        /\ pc[c] = "idle" /\ req[c].route = "place_order" /\ resp[c].status = 500
        /\ "customer_name" \notin DOMAIN req[c].form
        /\ store # {}

\* C6: a delete(id) that found the Order and then fails ends with 500 and
\* leaves every stored Order, the one with that id included, as it was.
C6_DeleteFailureRollsBack ==
    [][ \A c \in Clients :
          DeleteEnds(c, 500) =>
             /\ store' = store
             /\ Lookup(store', req[c].id) = Lookup(store, req[c].id) ]_vars

\* a delete failed after finding the Order, which is still stored
C6_Witness ==
    \E c \in Clients :
        /\ pc[c] = "idle" /\ req[c].route = "delete_order" /\ resp[c].status = 500
        /\ ToRow(order[c], order[c].id) \in store

\* C7: when the second of two concurrent successful creates returns, the two
\* requests hold different ids and list_all contains both Orders.
C7_ConcurrentCreatesDistinct ==
    [][ \A c, d \in Clients :
          ( /\ c # d
            /\ CreateEnds(d, 200)
            /\ c \in overlap[d]
            /\ pc[c] = "idle" /\ resp[c].status = 200 ) =>
               /\ order'[d].id # order[c].id
               /\ OrderDict(ToRow(order[c], order[c].id)) \in Range(ListAll(store'))
               /\ OrderDict(ToRow(order'[d], order'[d].id)) \in Range(ListAll(store')) ]_vars

\* two creates for the same table ran concurrently and both succeeded
C7_Witness ==
    \E c, d \in Clients :
        /\ c # d /\ c \in overlap[d]
        /\ pc[c] = "idle" /\ pc[d] = "idle"
        /\ resp[c].status = 200 /\ resp[d].status = 200
        /\ req[c].table_number = req[d].table_number

\* C8: every stored Order has a non-null customer_name, table_number and orders.
C8_StoredFieldsNotNull ==
    \A r \in store :
        /\ r[2] # None
        /\ r[3] \in Int
        /\ r[4] # None

\* a create without order_summary was attempted and Orders are stored
C8_Witness ==
    \E c \in Clients :
        /\ pc[c] = "idle" /\ req[c].route = "place_order"
        /\ "order_summary" \notin DOMAIN req[c].form
        /\ store # {}

\* C9: a successful create whose inputs equal those of an Order already stored
\* (the result of an earlier create with identical inputs) adds one more Order
\* with those field values, under an id different from the stored ones.
C9_CreateNotIdempotent ==
    [][ \A c \in Clients :
          LET name  == order[c].customer_name
              table == order[c].table_number
              items == order[c].orders
          IN  (CreateEnds(c, 200) /\ SameFields(store, name, table, items) # {}) =>
                 /\ Cardinality(SameFields(store', name, table, items))
                      = Cardinality(SameFields(store, name, table, items)) + 1
                 /\ \A r \in SameFields(store, name, table, items) :
                      r[1] # order'[c].id ]_vars

\* two stored Orders carry identical field values under different ids
C9_Witness ==
    \E r, s \in store :
        r[1] # s[1] /\ <<r[2], r[3], r[4]>> = <<s[2], s[3], s[4]>>

\* C10: list_all leaves the stored Orders unchanged, answers 200 with exactly
\* the stored Orders as (id, customer_name, table_number, orders), and with the
\* empty sequence on an empty store.
C10_KitchenReadOnly ==
    [][ \A c \in Clients :
          KitchenServed(c) =>
             /\ store' = store
             /\ resp'[c].status = 200
             /\ Len(resp'[c].orders) = Cardinality(store)
             /\ Range(resp'[c].orders) =
                  { [id |-> r[1], customer_name |-> r[2],
                     table_number |-> r[3], orders |-> r[4]] : r \in store }
             /\ (store = {} => resp'[c].orders = <<>>) ]_vars

\* the kitchen view has listed two stored Orders
C10_Witness ==
    \E c \in Clients :
        /\ req[c].route = "kitchen" /\ resp[c].status = 200
        /\ Len(resp[c].orders) = 2
        /\ Cardinality(store) = 2

=============================================================================
